---- MODULE Spec2Model ----
(***************************************************************************)
(* A model of gsb's backup timeline: the revision store (commits, branch   *)
(* refs, tags, index and working tree), the backup engine                  *)
(* (backup.create_backup), the history query (history.get_history) and the *)
(* history rewrite (fastforward.delete_backups / rewrite_history).         *)
(*                                                                         *)
(* A commit hash is the commit's position in the object store `commits`;   *)
(* objects are only ever appended.  A tree is an opaque value standing for *)
(* the contents of the tracked files.  Identifiers are pairs:              *)
(*   <<"tag", n>>    a tag name                                            *)
(*   <<"short", h>>  the 8-character prefix of commit hash h               *)
(*   <<"full", h>>   the full commit hash h                                *)
(*   <<"bogus", n>>  a string that names nothing in the repository         *)
(***************************************************************************)
EXTENDS Integers, Sequences, FiniteSets, TLC

\* ------------------------------------------------------------- bounds
MaxBackups == 3      \* commits that the backup actions may add after onboarding
MaxCommits == 8      \* size of the object store (originals and replays)
MaxTags == 3         \* tags in the repository
MaxTargets == 2      \* identifiers passed to one delete_backups call
MaxRewrites == 1     \* calls of delete_backups the model follows
Trees == {0, 1, 2}   \* contents the tracked files can have
Messages == {1}      \* tag messages a caller of create_backup can give
UserAnnotations == {2}   \* annotations of tags the user makes through git
Bogus == {<<"bogus", 1>>, <<"bogus", 2>>}

VARIABLES
    commits,        \* object store: hash -> [parent, tree, gsb, timestamp]
    branches,       \* refs/heads: branch name -> hash
    HEAD,           \* name of the checked-out branch
    tags,           \* refs/tags: set of [name, target, annotation, gsb]
    index,          \* the staged tree
    worktree,       \* the contents of the tracked files on disk
    now,            \* the wall clock, in seconds
    pc,             \* position inside delete_backups / rewrite_history
    starting_point, \* rewrite_history: its starting_point argument
    new_history,    \* rewrite_history: the resolved revisions to replay
    head,           \* rewrite_history: the local variable `head`
    tags_to_update, \* rewrite_history: the local list tags_to_update
    branch_name,    \* rewrite_history: the temporary branch's name
    cursor,         \* rewrite_history: how many loop iterations are done
    raised,         \* the exception in flight: its type, and the step that raised
    rewrites,       \* how many times delete_backups has been called
    pre,            \* the repository as it was when delete_backups was called
    result          \* what the last operation returned or raised

vars == <<commits, branches, HEAD, tags, index, worktree, now, pc,
          starting_point, new_history, head, tags_to_update, branch_name,
          cursor, raised, rewrites, pre, result>>

repo == <<commits, branches, HEAD, tags, index, worktree>>
locals == <<starting_point, new_history, head, tags_to_update, branch_name,
            cursor, raised>>

\* ------------------------------------------------------------- values
NoId == <<"none", 0>>
GSB == <<"gsb", 0>>
MAIN == <<"main", 0>>          \* the branch name "gsb"
NoTag == [name |-> NoId, target |-> 0, annotation |-> 0, gsb |-> "N"]
NoPre == [set |-> FALSE]
NoError == [type |-> "", phase |-> "", first |-> ""]
Raise(type, phase) == [type |-> type, phase |-> phase, first |-> type]
NoResult == [op |-> "none", error |-> "", value |-> NoId, not_found |-> {}]

Result(op, error, value, missing) ==
    [op |-> op, error |-> error, value |-> value, not_found |-> missing]

\* _git.Commit as stored: the committer decides `gsb`
NewCommit(parent, tree, gsb, timestamp) ==
    [parent |-> parent, tree |-> tree, gsb |-> gsb, timestamp |-> timestamp]

\* _generate_tag_name: a name derived from the clock, to the second
GenerateTagName(clock) == <<"tag", clock>>

\* ------------------------------------------------------------- the store
HeadCommit(br, hd) == IF hd \in DOMAIN br THEN br[hd] ELSE 0

TreeOf(cs, h) == cs[h].tree

\* _git.log: the commits reachable from HEAD, newest first
RECURSIVE LogFrom(_, _)
LogFrom(cs, h) == IF h = 0 THEN <<>> ELSE <<h>> \o LogFrom(cs, cs[h].parent)

Log(cs, br, hd) == LogFrom(cs, HeadCommit(br, hd))

\* tag names sort by their text; generated names sort by their clock stamp
NameLeq(a, b) == a[2] <= b[2]

\* a lookup that takes lightweight tags too
TagLookup_Lightweight(tg, c) ==
    LET s == {t \in tg : t.target = c}
    IN  IF s = {} THEN NoTag
        ELSE CHOOSE t \in s : \A u \in s : NameLeq(u.name, t.name)

\* history.get_history: tag_lookup = {tag.target: tag for tag in sorted tags}
\* (the last tag in sorted order wins when several point at one commit)
TagLookup(tg, c) ==
    LET s == {t \in tg : t.target = c /\ t.annotation # 0}
    IN  IF s = {} THEN NoTag
        ELSE CHOOSE t \in s : \A u \in s : NameLeq(u.name, t.name)

Revision(identifier, commit_hash, timestamp, tagged, gsb) ==
    [identifier |-> identifier, commit_hash |-> commit_hash,
     timestamp |-> timestamp, tagged |-> tagged, gsb |-> gsb]

\* len(revisions) == limit
LimitReached_Beyond(revisions, o) == Len(revisions) > o.limit

LimitReached(revisions, o) == Len(revisions) = o.limit

\* commit.timestamp < since
TooOld_OrEqual(timestamp, o) == timestamp <= o.since

TooOld(timestamp, o) == timestamp < o.since

\* since_last_tagged_backup, tested once an annotated tag is found
StopsAtTag_Never(o) == FALSE

StopsAtTag(o) == o.since_last_tagged_backup

\* tag.gsb if tag.gsb is not None else commit.gsb
IsGsb_OfCommit(tag, commit_gsb) == commit_gsb

IsGsb(tag, commit_gsb) == IF tag.gsb # "N" THEN tag.gsb = "T" ELSE commit_gsb

\* the loop of history.get_history over _git.log
RECURSIVE Walk(_, _, _, _, _)
Walk(cs, tg, log, revisions, o) ==
    IF log = <<>> THEN revisions
    ELSE
      LET commit == Head(log)
          tag == TagLookup(tg, commit)
      IN  IF LimitReached(revisions, o) THEN revisions
          ELSE IF TooOld(cs[commit].timestamp, o) THEN revisions
          ELSE IF tag # NoTag
          THEN IF StopsAtTag(o) THEN revisions
               ELSE LET is_gsb == IsGsb(tag, cs[commit].gsb)
                    IN  IF ~o.include_non_gsb /\ ~is_gsb
                        THEN Walk(cs, tg, Tail(log), revisions, o)
                        ELSE Walk(cs, tg, Tail(log),
                                  Append(revisions,
                                         Revision(tag.name, commit,
                                                  cs[commit].timestamp, TRUE, is_gsb)),
                                  o)
          ELSE IF o.tagged_only THEN Walk(cs, tg, Tail(log), revisions, o)
               ELSE IF ~o.include_non_gsb /\ ~cs[commit].gsb
                    THEN Walk(cs, tg, Tail(log), revisions, o)
                    ELSE Walk(cs, tg, Tail(log),
                              Append(revisions,
                                     Revision(<<"short", commit>>, commit,
                                              cs[commit].timestamp, FALSE,
                                              cs[commit].gsb)),
                              o)

Options(tagged_only, include_non_gsb, limit, since, since_last_tagged_backup) ==
    [tagged_only |-> tagged_only, include_non_gsb |-> include_non_gsb,
     limit |-> limit, since |-> since,
     since_last_tagged_backup |-> since_last_tagged_backup]

DefaultOptions == Options(TRUE, FALSE, -1, 0, FALSE)

get_history(cs, br, hd, tg, o) == Walk(cs, tg, Log(cs, br, hd), <<>>, o)

Identifiers(revs) == [i \in 1..Len(revs) |-> revs[i].identifier]

\* ------------------------------------------------------------- the adapter
\* what a reference (tag name, short or full hash) points at; 0 when nothing
Resolve(cs, tg, ref) ==
    IF ref[1] = "tag"
    THEN IF \E t \in tg : t.name = ref
         THEN (CHOOSE t \in tg : t.name = ref).target
         ELSE 0
    ELSE IF ref[1] \in {"short", "full"} /\ ref[2] \in 1..Len(cs) THEN ref[2]
    ELSE 0

\* _git.show: the Tag or the Commit a reference names
Show(cs, tg, ref) ==
    IF ref[1] = "tag"
    THEN LET t == CHOOSE t \in tg : t.name = ref
         IN  [kind |-> "Tag", name |-> t.name, annotation |-> t.annotation,
              hash |-> t.target]
    ELSE [kind |-> "Commit", name |-> ref, annotation |-> 0, hash |-> ref[2]]

\* _git.commit: a new commit of the index on top of the checked-out branch;
\* nothing to commit when the index equals the parent's tree
NothingToCommit(cs, br, hd, idx) == idx = TreeOf(cs, HeadCommit(br, hd))

\* _git.tag: fails when the name is taken
TagExists(tg, name) == \E t \in tg : t.name = name

NewTag(name, target, annotation, gsb) ==
    [name |-> name, target |-> target, annotation |-> annotation, gsb |-> gsb]

\* _git.delete_tag
DeleteTag(tg, name) == {t \in tg : t.name # name}

\* _git.checkout_branch(name, target): the branch is put at `target` when one
\* is given, is kept when it exists, and starts at the current commit
\* otherwise; then it is checked out
CheckoutAt(cs, br, hd, tg, name, target) ==
    IF target # NoId THEN Resolve(cs, tg, target)
    ELSE IF name \in DOMAIN br THEN br[name]
    ELSE HeadCommit(br, hd)

CheckoutBranch(cs, br, hd, tg, name, target) ==
    [b \in DOMAIN br \cup {name} |->
        IF b = name THEN CheckoutAt(cs, br, hd, tg, name, target) ELSE br[b]]

\* _git.delete_branch: fails when the branch does not exist (or is checked out)
CanDeleteBranch(br, hd, name) == name \in DOMAIN br /\ name # hd

DeleteBranch(br, name) == [b \in DOMAIN br \ {name} |-> br[b]]

\* _git.reset: the checked-out branch moves to `target`
ResetBranch(br, hd, h) == [br EXCEPT ![hd] = h]

\* ------------------------------------------------------------- backup.py
\* except ValueError: if not tag_message: raise
Reraises_Never(tag_message) == FALSE

Reraises_Always(tag_message) == TRUE

Reraises(tag_message) == tag_message = 0

\* backup.create_backup(repo_root, tag_message): what it leaves behind.
\* tag_message = 0 stands for None.
create_backup(cs, br, hd, tg, wt, clock, tag_message) ==
    LET parent == HeadCommit(br, hd)
        nothing == NothingToCommit(cs, br, hd, wt)
        c == Len(cs) + 1
        cs2 == IF nothing THEN cs
               ELSE Append(cs, NewCommit(parent, wt, TRUE, clock))
        br2 == IF nothing THEN br ELSE [br EXCEPT ![hd] = c]
        at == IF nothing THEN parent ELSE c
        name == GenerateTagName(clock)
    IN  IF nothing /\ Reraises(tag_message)
        THEN [commits |-> cs, branches |-> br, tags |-> tg, index |-> wt,
              error |-> "ValueError.NothingToCommit", identifier |-> NoId]
        ELSE IF tag_message = 0
        THEN [commits |-> cs2, branches |-> br2, tags |-> tg, index |-> wt,
              error |-> "", identifier |-> <<"full", c>>]
        ELSE IF TagExists(tg, name)
        THEN [commits |-> cs2, branches |-> br2, tags |-> tg, index |-> wt,
              error |-> "ValueError.TagExists", identifier |-> NoId]
        ELSE [commits |-> cs2, branches |-> br2,
              tags |-> tg \cup {NewTag(name, at, tag_message, "T")},
              index |-> wt, error |-> "", identifier |-> name]

Idle == pc = "idle"

\* the user works on the repository until the last delete the model follows
Open == Idle /\ rewrites < MaxRewrites

\* the locals of a finished rewrite_history call are gone
ResetLocals ==
    /\ starting_point' = NoId
    /\ new_history' = <<>>
    /\ head' = NoId
    /\ tags_to_update' = <<>>
    /\ branch_name' = NoId
    /\ cursor' = 0
    /\ raised' = NoError

\* the user changes the tracked files
Edit(t) ==
    /\ Open
    /\ t # worktree
    /\ worktree' = t
    /\ pre' = NoPre
    /\ result' = NoResult
    /\ ResetLocals
    /\ UNCHANGED <<commits, branches, HEAD, tags, index, now, pc, rewrites>>

\* gsb backup [--tag MSG]; `tick` says whether the clock, read to the second,
\* has moved on when the next operation starts
Backup(tag_message, tick) ==
    LET out == create_backup(commits, branches, HEAD, tags, worktree, now,
                             tag_message)
    IN  /\ Open
        /\ Len(out.commits) <= MaxBackups + 1
        /\ Cardinality(out.tags) <= MaxTags
        /\ commits' = out.commits
        /\ branches' = out.branches
        /\ tags' = out.tags
        /\ index' = out.index
        /\ now' = IF tick /\ (out.commits # commits \/ out.tags # tags)
                  THEN now + 1 ELSE now
        /\ pre' = NoPre
        /\ result' = Result("backup", out.error, <<tag_message, out.identifier>>, {})
        /\ ResetLocals
        /\ UNCHANGED <<HEAD, worktree, pc, rewrites>>

\* a backup made a second or more before whatever comes next
CreateBackup(tag_message) == Backup(tag_message, TRUE)

\* the user tags HEAD through git itself (_git.tag with the user as tagger)
GitTag(annotation) ==
    /\ Open
    /\ Cardinality(tags) < MaxTags
    /\ ~TagExists(tags, GenerateTagName(now))
    /\ TagLookup(tags, HeadCommit(branches, HEAD)) = NoTag
    /\ tags' = tags \cup {NewTag(GenerateTagName(now), HeadCommit(branches, HEAD),
                                 annotation, "F")}
    /\ now' = now + 1
    /\ pre' = NoPre
    /\ result' = NoResult
    /\ ResetLocals
    /\ UNCHANGED <<commits, branches, HEAD, index, worktree, pc, rewrites>>

\* ------------------------------------------------------------- fastforward.py
FullHistoryOptions == Options(FALSE, TRUE, -1, 0, FALSE)

ToSet_Last(revisions) == {revisions[Len(revisions)]}

\* not_found: set[str] = set(revisions)
ToSet(revisions) == {revisions[i] : i \in 1..Len(revisions)}

StartingPoint_Self(all_revs, n, i) == all_revs[n - i].identifier

\* to_keep.append(all_revs[-i]["identifier"]): the revision just older than
\* the first one to go
StartingPoint(all_revs, n, i) == all_revs[n - i + 1].identifier

\* the loop of delete_backups over reversed(all_revs); i counts from 0
RECURSIVE Partition(_, _, _, _)
Partition(all_revs, i, not_found, to_keep) ==
    LET n == Len(all_revs)
    IN  IF i = n
        THEN [error |-> "", not_found |-> not_found, to_keep |-> to_keep]
        ELSE
          LET rev == all_revs[n - i]
          IN  IF rev.identifier \in not_found
              THEN IF Len(to_keep) = 0
                   THEN IF i = 0
                        THEN [error |-> "NotImplementedError",
                              not_found |-> not_found, to_keep |-> to_keep]
                        ELSE Partition(all_revs, i + 1,
                                       not_found \ {rev.identifier},
                                       Append(to_keep,
                                              StartingPoint(all_revs, n, i)))
                   ELSE Partition(all_revs, i + 1,
                                  not_found \ {rev.identifier}, to_keep)
              ELSE IF Len(to_keep) > 0
                   THEN Partition(all_revs, i + 1, not_found,
                                  Append(to_keep, rev.identifier))
                   ELSE Partition(all_revs, i + 1, not_found, to_keep)

delete_backups_Unchecked(cs, br, hd, tg, revisions) ==
    LET all_revs == get_history(cs, br, hd, tg, FullHistoryOptions)
        part == Partition(all_revs, 0, ToSet(revisions), <<>>)
    IN  IF part.error # ""
        THEN [error |-> part.error, not_found |-> {}, to_keep |-> <<>>]
        ELSE IF part.to_keep = <<>>
        THEN [error |-> "ValueError.NotFound", not_found |-> part.not_found,
              to_keep |-> <<>>]
        ELSE [error |-> "", not_found |-> {}, to_keep |-> part.to_keep]

delete_backups_FirstMiss(cs, br, hd, tg, revisions) ==
    LET all_revs == get_history(cs, br, hd, tg, FullHistoryOptions)
        part == Partition(all_revs, 0, ToSet(revisions), <<>>)
    IN  IF part.error # ""
        THEN [error |-> part.error, not_found |-> {}, to_keep |-> <<>>]
        ELSE IF part.not_found # {}
        THEN [error |-> "ValueError.NotFound",
              not_found |-> {CHOOSE r \in part.not_found : TRUE},
              to_keep |-> <<>>]
        ELSE [error |-> "", not_found |-> {}, to_keep |-> part.to_keep]

delete_backups_NotFoundFirst(cs, br, hd, tg, revisions) ==
    LET all_revs == get_history(cs, br, hd, tg, FullHistoryOptions)
        part == Partition(all_revs, 0, ToSet(revisions), <<>>)
        missing == ToSet(revisions)
                       \ {all_revs[k].identifier : k \in 1..Len(all_revs)}
    IN  IF missing # {}
        THEN [error |-> "ValueError.NotFound", not_found |-> missing,
              to_keep |-> <<>>]
        ELSE IF part.error # ""
        THEN [error |-> part.error, not_found |-> {}, to_keep |-> <<>>]
        ELSE [error |-> "", not_found |-> {}, to_keep |-> part.to_keep]

\* delete_backups up to its call of rewrite_history: the error it raises, or
\* the arguments (starting point first) it passes on
delete_backups(cs, br, hd, tg, revisions) ==
    LET all_revs == get_history(cs, br, hd, tg, FullHistoryOptions)
        part == Partition(all_revs, 0, ToSet(revisions), <<>>)
    IN  IF part.error # ""
        THEN [error |-> part.error, not_found |-> {}, to_keep |-> <<>>]
        ELSE IF part.not_found # {}
        THEN [error |-> "ValueError.NotFound", not_found |-> part.not_found,
              to_keep |-> <<>>]
        ELSE [error |-> "", not_found |-> {}, to_keep |-> part.to_keep]

\* the arguments a caller may pass, in any order and with repeats: identifiers
\* the full history lists, full hashes of its untagged revisions, and strings
\* that name nothing
TargetLists ==
    LET all_revs == get_history(commits, branches, HEAD, tags, FullHistoryOptions)
        ids == {all_revs[i].identifier : i \in 1..Len(all_revs)}
        hashes == {<<"full", all_revs[i].commit_hash>> :
                      i \in {j \in 1..Len(all_revs) : ~all_revs[j].tagged}}
    IN  UNION {[1..n -> ids \cup hashes \cup Bogus] : n \in 1..MaxTargets}

\* one identifier of the full history
SingleTargets == {revisions \in TargetLists : Len(revisions) = 1 /\ revisions[1] \notin Bogus}

Dirty == ~NothingToCommit(commits, branches, HEAD, worktree)

\* what delete_backups finds when it is called; `before` is the same for
\* the call that came just before it, with the error that call raised
Snapshot(targets) ==
    [set |-> TRUE, ncommits |-> Len(commits), branches |-> branches,
     HEAD |-> HEAD, tags |-> tags, index |-> index, worktree |-> worktree,
     targets |-> targets, dirty |-> Dirty,
     before |-> IF pre.set THEN [pre EXCEPT !.before = NoPre] @@ [error |-> result.error]
                ELSE NoPre]

\* gsb delete REVISION...: validation, then rewrite_history lines 49-52;
\* `calls` is the number of calls the model follows
Delete(revisions, calls) ==
    LET v == delete_backups(commits, branches, HEAD, tags, revisions)
        needed == (Len(v.to_keep) - 1) + (IF Dirty THEN 2 ELSE 0)
    IN  /\ Idle
        /\ rewrites < calls
        /\ pre' = Snapshot({revisions[i] : i \in 1..Len(revisions)})
        /\ IF v.error # ""
           THEN /\ result' = Result("delete", v.error, NoId, v.not_found)
                /\ ResetLocals
                /\ pc' = pc
                /\ rewrites' = rewrites + 1
           ELSE /\ Len(commits) + needed <= MaxCommits
                /\ starting_point' = v.to_keep[1]
                /\ new_history' = [i \in 1..(Len(v.to_keep) - 1) |->
                                      Show(commits, tags, v.to_keep[i + 1])]
                /\ head' = NoId
                /\ tags_to_update' = <<>>
                /\ branch_name' = NoId
                /\ cursor' = 0
                /\ raised' = NoError
                /\ result' = NoResult
                /\ pc' = "snapshot"
                /\ rewrites' = rewrites + 1
        /\ UNCHANGED <<commits, branches, HEAD, tags, index, worktree, now>>

DeleteBackups(revisions) == Delete(revisions, MaxRewrites)

WithSnapshot_Forgotten(nh, revision) == nh

\* new_history.append(_git.show(repo_root, head)) after the snapshot
WithSnapshot(nh, revision) == Append(nh, revision)

\* rewrite_history lines 54-60: back up what is not backed up yet
SnapshotUncommitted ==
    LET out == create_backup(commits, branches, HEAD, tags, worktree, now, 0)
    IN  /\ pc = "snapshot"
        /\ commits' = out.commits
        /\ branches' = out.branches
        /\ index' = out.index
        /\ IF out.error = ""
           THEN /\ head' = out.identifier
                /\ new_history' = WithSnapshot(new_history,
                                               Show(out.commits, tags, out.identifier))
                /\ now' = now + 1
           ELSE UNCHANGED <<head, new_history, now>>
        /\ pc' = "branch"
        /\ UNCHANGED <<HEAD, tags, worktree, starting_point, tags_to_update,
                       branch_name, cursor, raised, rewrites, pre, result>>

PcAfterReplay(nh, done, ttu) ==
    IF done < Len(nh) THEN "replay"
    ELSE IF ttu # <<>> THEN "retag"
    ELSE "finalize"

\* dt.datetime.now().strftime("gsb_rebase_%Y.%m.%d+%H%M%S")
TempBranchName(clock) == <<"gsb_rebase", clock>>

\* rewrite_history lines 63-66: the temporary branch at the starting point;
\* `tick` says whether the clock, read to the second, moves on afterwards
Branch(ok, tick) ==
    LET name == TempBranchName(now)
        br2 == CheckoutBranch(commits, branches, HEAD, tags, name, starting_point)
    IN  /\ pc = "branch"
        /\ branch_name' = name
        /\ now' = IF tick THEN now + 1 ELSE now
        /\ IF ok
           THEN /\ branches' = br2
                /\ HEAD' = name
                /\ index' = TreeOf(commits, br2[name])
                /\ worktree' = TreeOf(commits, br2[name])
                /\ head' = starting_point
                /\ pc' = PcAfterReplay(new_history, 0, <<>>)
                /\ raised' = raised
           ELSE /\ raised' = Raise("OSError", "Branching")
                /\ pc' = "except"
                /\ UNCHANGED <<branches, HEAD, index, worktree, head>>
        /\ UNCHANGED <<commits, tags, starting_point, new_history,
                       tags_to_update, cursor, rewrites, pre, result>>

Branching(ok) == Branch(ok, TRUE)

ReplayTree_Parent(cs, revision) == TreeOf(cs, cs[revision.hash].parent)

\* _git.reset(revision, hard=True) then _git.reset(head, hard=False): the
\* index and the files are the revision's, the branch is at `head`
ReplayTree(cs, revision) == TreeOf(cs, revision.hash)

Current_NewestFirst(nh, done) == nh[Len(nh) - done]

\* for revision in new_history: the revision of this turn of the loop
Current(nh, done) == nh[done + 1]

\* rewrite_history lines 67-92: one turn of the replay loop
Replaying(ok) ==
    LET revision == Current(new_history, cursor)
        base == Resolve(commits, tags, head)
        tree == ReplayTree(commits, revision)
        nothing == tree = TreeOf(commits, base)
        c == Len(commits) + 1
        ttu == IF revision.kind = "Tag"
               THEN Append(tags_to_update, [tag |-> revision, target |-> c])
               ELSE tags_to_update
    IN  /\ pc = "replay"
        /\ index' = tree
        /\ worktree' = tree
        /\ IF ok /\ ~nothing
           THEN /\ commits' = Append(commits, NewCommit(base, tree, TRUE, now))
                /\ branches' = [branches EXCEPT ![HEAD] = c]
                /\ head' = <<"full", c>>
                /\ tags_to_update' = ttu
                /\ cursor' = IF cursor + 1 < Len(new_history) THEN cursor + 1 ELSE 0
                /\ now' = now + 1
                /\ pc' = PcAfterReplay(new_history, cursor + 1, ttu)
                /\ raised' = raised
           ELSE /\ branches' = [branches EXCEPT ![HEAD] = base]
                /\ raised' = Raise(IF ok THEN "ValueError.NothingToCommit"
                                    ELSE "OSError", "Replaying")
                /\ pc' = "except"
                /\ UNCHANGED <<commits, head, tags_to_update, cursor, now>>
        /\ UNCHANGED <<HEAD, tags, starting_point, new_history, branch_name,
                       rewrites, pre, result>>

Retag_AtOriginal(tg, item) ==
    DeleteTag(tg, item.tag.name) \cup
        {NewTag(item.tag.name, item.tag.hash, item.tag.annotation, "T")}

\* _git.delete_tag(tag.name); _git.tag(tag.name, tag.annotation, target=target)
Retag(tg, item) ==
    DeleteTag(tg, item.tag.name) \cup
        {NewTag(item.tag.name, item.target, item.tag.annotation, "T")}

\* rewrite_history lines 97-99: one turn of the retagging loop
Retagging(fail) ==
    LET item == tags_to_update[cursor + 1]
        name == item.tag.name
        deleted == DeleteTag(tags, name)
    IN  /\ pc = "retag"
        /\ IF ~TagExists(tags, name) \/ fail = "delete_tag"
           THEN /\ raised' = Raise(IF fail = "delete_tag" THEN "OSError"
                                    ELSE "ValueError.NoSuchTag", "Retagging")
                /\ pc' = "except"
                /\ UNCHANGED <<tags, cursor>>
           ELSE IF fail = "tag"
           THEN /\ tags' = deleted
                /\ raised' = Raise("OSError", "Retagging")
                /\ pc' = "except"
                /\ UNCHANGED cursor
           ELSE /\ tags' = Retag(tags, item)
                /\ cursor' = IF cursor + 1 < Len(tags_to_update)
                             THEN cursor + 1 ELSE 0
                /\ pc' = IF cursor + 1 < Len(tags_to_update)
                         THEN "retag" ELSE "finalize"
                /\ raised' = raised
        /\ UNCHANGED <<commits, branches, HEAD, index, worktree, now,
                       starting_point, new_history, head, tags_to_update,
                       branch_name, rewrites, pre, result>>

FinalizeBranches_Renames(cs, br, hd, tg) ==
    IF CanDeleteBranch(br, hd, GSB) THEN DeleteBranch(br, GSB)
    ELSE [b \in {hd, GSB} |-> HeadCommit(br, hd)]

\* try: delete_branch("gsb"); except ValueError: a warning, and
\* checkout_branch("gsb", None)
FinalizeBranches(cs, br, hd, tg) ==
    IF CanDeleteBranch(br, hd, GSB) THEN DeleteBranch(br, GSB)
    ELSE CheckoutBranch(cs, br, hd, tg, GSB, NoId)

\* rewrite_history lines 100-106: drop the gsb branch
FinalizingDelete(ok) ==
    LET br2 == CheckoutBranch(commits, branches, HEAD, tags, GSB, NoId)
    IN  /\ pc = "finalize"
        /\ IF ~ok
           THEN /\ raised' = Raise("OSError", "Finalizing")
                /\ pc' = "except"
                /\ UNCHANGED <<branches, HEAD, index, worktree>>
           ELSE IF CanDeleteBranch(branches, HEAD, GSB)
           THEN /\ branches' = FinalizeBranches(commits, branches, HEAD, tags)
                /\ pc' = "checkout"
                /\ UNCHANGED <<HEAD, index, worktree, raised>>
           ELSE /\ branches' = FinalizeBranches(commits, branches, HEAD, tags)
                /\ HEAD' = GSB
                /\ index' = TreeOf(commits, br2[GSB])
                /\ worktree' = TreeOf(commits, br2[GSB])
                /\ pc' = "checkout"
                /\ raised' = raised
        /\ UNCHANGED <<commits, tags, now, starting_point, new_history, head,
                       tags_to_update, branch_name, cursor, rewrites, pre, result>>

\* rewrite_history line 107: the gsb branch at the new head
FinalizingCheckout(ok) ==
    LET br2 == CheckoutBranch(commits, branches, HEAD, tags, GSB, head)
    IN  /\ pc = "checkout"
        /\ IF ok
           THEN /\ branches' = br2
                /\ HEAD' = GSB
                /\ index' = TreeOf(commits, br2[GSB])
                /\ worktree' = TreeOf(commits, br2[GSB])
                /\ pc' = "finally"
                /\ raised' = raised
           ELSE /\ raised' = Raise("OSError", "Finalizing")
                /\ pc' = "except"
                /\ UNCHANGED <<branches, HEAD, index, worktree>>
        /\ UNCHANGED <<commits, tags, now, starting_point, new_history, head,
                       tags_to_update, branch_name, cursor, rewrites, pre, result>>

\* rewrite_history lines 109-111: the handler
Except ==
    LET h == Resolve(commits, tags, head)
    IN  /\ pc = "except"
        /\ IF head = NoId
           THEN /\ raised' = [raised EXCEPT !.type = "UnboundLocalError"]
                /\ UNCHANGED <<branches, index, worktree>>
           ELSE /\ branches' = ResetBranch(branches, HEAD, h)
                /\ index' = TreeOf(commits, h)
                /\ worktree' = TreeOf(commits, h)
                /\ raised' = raised
        /\ pc' = "finally"
        /\ UNCHANGED <<commits, HEAD, tags, now, starting_point, new_history,
                       head, tags_to_update, branch_name, cursor, rewrites, pre, result>>

Returns_StartingPoint(hd, sp) == sp

\* return head
Returns(hd, sp) == hd

Cleanup_Skipped(br, name) == br

\* _git.delete_branch(repo_root, branch_name), with gsb checked out
Cleanup(br, name) ==
    IF CanDeleteBranch(br, GSB, name) THEN DeleteBranch(br, name) ELSE br

\* rewrite_history lines 112-114: the finally block, and the return
Finally ==
    LET br2 == CheckoutBranch(commits, branches, HEAD, tags, GSB, NoId)
        gone == CanDeleteBranch(br2, GSB, branch_name)
        error == IF gone THEN raised.type ELSE "ValueError.NoSuchBranch"
    IN  /\ pc = "finally"
        /\ HEAD' = GSB
        /\ index' = TreeOf(commits, br2[GSB])
        /\ worktree' = TreeOf(commits, br2[GSB])
        /\ branches' = Cleanup(br2, branch_name)
        /\ result' = Result("delete", error,
                            IF error = "" THEN Returns(head, starting_point)
                            ELSE NoId, {})
        /\ pc' = "idle"
        /\ UNCHANGED <<commits, tags, now, starting_point, new_history, head,
                       tags_to_update, branch_name, cursor, raised, rewrites, pre>>

\* ------------------------------------------------------------- onboard.py
\* onboard.create_repo: one commit, tagged "Start of gsb tracking"
Init ==
    /\ commits = <<NewCommit(0, 0, TRUE, 0)>>
    /\ index = 0
    /\ worktree = 0
    /\ branches = [b \in {GSB} |-> 1]
    /\ HEAD = GSB
    /\ tags = {NewTag(GenerateTagName(0), 1, 1, "T")}
    /\ now = 1
    /\ pc = "idle"
    /\ starting_point = NoId
    /\ new_history = <<>>
    /\ head = NoId
    /\ tags_to_update = <<>>
    /\ branch_name = NoId
    /\ cursor = 0
    /\ raised = NoError
    /\ rewrites = 0
    /\ pre = NoPre
    /\ result = NoResult

Next ==
    \/ \E t \in Trees : Edit(t)
    \/ \E m \in Messages \cup {0} : CreateBackup(m)
    \/ \E m \in UserAnnotations : GitTag(m)
    \/ \E revisions \in TargetLists : DeleteBackups(revisions)
    \/ SnapshotUncommitted
    \/ \E ok \in BOOLEAN : Branching(ok)
    \/ \E ok \in BOOLEAN : Replaying(ok)
    \/ \E fail \in {"none", "delete_tag", "tag"} : Retagging(fail)
    \/ \E ok \in BOOLEAN : FinalizingDelete(ok)
    \/ \E ok \in BOOLEAN : FinalizingCheckout(ok)
    \/ Except
    \/ Finally

Spec == Init /\ [][Next]_vars

\* ------------------------------------------------------------- queries
\* the user commits through git itself (the committer is not gsb)
GitCommit ==
    /\ Open
    /\ ~NothingToCommit(commits, branches, HEAD, worktree)
    /\ Len(commits) <= MaxBackups
    /\ commits' = Append(commits,
                         NewCommit(HeadCommit(branches, HEAD), worktree, FALSE, now))
    /\ branches' = [branches EXCEPT ![HEAD] = Len(commits) + 1]
    /\ index' = worktree
    /\ now' = now + 1
    /\ pre' = NoPre
    /\ result' = NoResult
    /\ ResetLocals
    /\ UNCHANGED <<HEAD, tags, worktree, pc, rewrites>>

\* the arguments get_history is called with
QueryOptions ==
    {Options(tagged_only, include_non_gsb, limit, since, since_last) :
        tagged_only \in BOOLEAN, include_non_gsb \in BOOLEAN,
        limit \in {-1, 1}, since \in {0, 2}, since_last \in BOOLEAN}

GetHistory_Staging(o) ==
    /\ Idle
    /\ result' = Result("history", "",
                        <<o, get_history(commits, branches, HEAD, tags, o)>>, {})
    /\ index' = worktree
    /\ pre' = NoPre
    /\ ResetLocals
    /\ UNCHANGED <<commits, branches, HEAD, tags, worktree, now, pc, rewrites>>

\* gsb history: get_history(repo_root, **options), which only reads
GetHistory(o) ==
    /\ Idle
    /\ result' = Result("history", "",
                        <<o, get_history(commits, branches, HEAD, tags, o)>>, {})
    /\ pre' = NoPre
    /\ ResetLocals
    /\ UNCHANGED <<commits, branches, HEAD, tags, index, worktree, now, pc,
                   rewrites>>

NextHistory ==
    \/ \E t \in Trees : Edit(t)
    \/ \E m \in Messages \cup {0} : CreateBackup(m)
    \/ \E m \in UserAnnotations : GitTag(m)
    \/ GitCommit
    \/ \E o \in QueryOptions : GetHistory(o)

SpecHistory == Init /\ [][NextHistory]_vars

\* the arguments get_history is called with, a limit of two among them
QueryArguments ==
    {Options(tagged_only, include_non_gsb, limit, since, since_last) :
        tagged_only \in BOOLEAN, include_non_gsb \in BOOLEAN,
        limit \in {-1, 1, 2}, since \in {0, 2}, since_last \in BOOLEAN}

\* a run is followed up to its first query
Unqueried == result.op # "history"

\* as NextHistory, with lightweight tags (git tag without an annotation)
NextQuery ==
    \/ \E t \in Trees : Unqueried /\ Edit(t)
    \/ \E m \in Messages \cup {0} : Unqueried /\ CreateBackup(m)
    \/ \E m \in UserAnnotations \cup {0} : Unqueried /\ GitTag(m)
    \/ Unqueried /\ GitCommit
    \/ \E o \in QueryArguments : Unqueried /\ GetHistory(o)

SpecQuery == Init /\ [][NextQuery]_vars

\* backups that may follow each other within one second of the clock
NextBackup ==
    \/ \E t \in Trees : Edit(t)
    \/ \E m \in Messages \cup {0}, tick \in BOOLEAN : Backup(m, tick)
    \/ \E m \in UserAnnotations \cup {0} : GitTag(m)
    \/ GitCommit

SpecBackup == Init /\ [][NextBackup]_vars

\* ------------------------------------------------ a rewrite started again
TwoRewrites == 2

\* the process is killed in the middle of a rewrite: nothing of
\* rewrite_history runs any more, the handlers neither, and the repository
\* stays as the last adapter call left it
Killed ==
    /\ pc \in {"replay", "retag", "finalize"}
    /\ pc' = "idle"
    /\ result' = Result("delete", "Killed", NoId, {})
    /\ ResetLocals
    /\ UNCHANGED <<commits, branches, HEAD, tags, index, worktree, now,
                   rewrites, pre>>

\* backups, then up to two calls of delete_backups, each with one target,
\* that may fall within the same second of the clock and the first of which
\* may be killed; no adapter call fails
NextRestart ==
    \/ \E t \in Trees : Edit(t)
    \/ \E m \in Messages \cup {0} : CreateBackup(m)
    \/ \E revisions \in SingleTargets : Delete(revisions, TwoRewrites)
    \/ SnapshotUncommitted
    \/ \E tick \in BOOLEAN : Branch(TRUE, tick)
    \/ Replaying(TRUE)
    \/ Retagging("none")
    \/ FinalizingDelete(TRUE)
    \/ FinalizingCheckout(TRUE)
    \/ Except
    \/ Finally
    \/ Killed

SpecRestart == Init /\ [][NextRestart]_vars

\* ------------------------------------------------------------- onboard.py
MaxPatterns == 2

MANIFEST_NAME == ".gsb_manifest"

REQUIRED_FILES == {".gitignore", MANIFEST_NAME}

\* the glob patterns a caller of create_repo can give
PatternNames == {".", "saves", "logs", ".gitignore", MANIFEST_NAME}

PatternLists ==
    UNION {[1..n -> PatternNames] : n \in 0..MaxPatterns}

\* Manifest(root, patterns).write() followed by Manifest.of(root): the
\* patterns are stored as a set
RoundTrip(patterns) == {patterns[i] : i \in DOMAIN patterns}

\* onboard.create_repo(repo_root, *patterns): the patterns of the manifest
\* it returns.  No pattern means "."; tuple(set(patterns)) drops repeated
\* patterns, which the set written to the manifest does not have anyway.
create_repo(patterns) ==
    LET given == IF patterns = <<>> THEN <<".">> ELSE patterns
    IN  RoundTrip(given)

\* a directory that gsb does not manage yet
InitBare ==
    /\ commits = <<>>
    /\ index = 0
    /\ worktree = 0
    /\ branches = [b \in {} |-> 0]
    /\ HEAD = GSB
    /\ tags = {}
    /\ now = 0
    /\ pc = "idle"
    /\ starting_point = NoId
    /\ new_history = <<>>
    /\ head = NoId
    /\ tags_to_update = <<>>
    /\ branch_name = NoId
    /\ cursor = 0
    /\ raised = NoError
    /\ rewrites = 0
    /\ pre = NoPre
    /\ result = NoResult

\* the manifest file exists
Onboarded == commits # <<>>

\* gsb init [patterns]: onboard.create_repo, which returns the manifest
CreateRepo(patterns) ==
    /\ Open
    /\ IF Onboarded
       THEN /\ result' = Result("init", "FileExistsError", {}, {})
            /\ UNCHANGED <<commits, branches, HEAD, tags, index, now>>
       ELSE /\ commits' = <<NewCommit(0, worktree, TRUE, now)>>
            /\ branches' = [b \in {GSB} |-> 1]
            /\ HEAD' = GSB
            /\ tags' = {NewTag(GenerateTagName(now), 1, 1, "T")}
            /\ index' = worktree
            /\ now' = now + 1
            /\ result' = Result("init", "", create_repo(patterns), {})
    /\ pre' = NoPre
    /\ ResetLocals
    /\ UNCHANGED <<worktree, pc, rewrites>>

NextOnboard ==
    \/ \E patterns \in PatternLists : CreateRepo(patterns)
    \/ \E t \in Trees : Onboarded /\ Edit(t)
    \/ \E m \in Messages \cup {0} : Onboarded /\ CreateBackup(m)

SpecOnboard == InitBare /\ [][NextOnboard]_vars

\* create_repo in a directory whose git repository starts on another branch
\* than gsb (pygit2.init_repository makes no gsb branch)
InitOnboarded ==
    /\ commits = <<NewCommit(0, 0, TRUE, 0)>>
    /\ index = 0
    /\ worktree = 0
    /\ branches = [b \in {MAIN} |-> 1]
    /\ HEAD = MAIN
    /\ tags = {NewTag(GenerateTagName(0), 1, 1, "T")}
    /\ now = 1
    /\ pc = "idle"
    /\ starting_point = NoId
    /\ new_history = <<>>
    /\ head = NoId
    /\ tags_to_update = <<>>
    /\ branch_name = NoId
    /\ cursor = 0
    /\ raised = NoError
    /\ rewrites = 0
    /\ pre = NoPre
    /\ result = NoResult

SpecOnboarded == InitOnboarded /\ [][Next]_vars

\* ------------------------------------------------------------- properties
\* delete_backups has returned (or raised) and nothing has happened since
Returned == pc = "idle" /\ result.op = "delete"

Succeeded == Returned /\ result.error = ""

\* the history as get_history would have reported it when delete_backups was
\* called, and as it reports it now
PreHistory(o) == get_history(commits, pre.branches, pre.HEAD, pre.tags, o)

PostHistory(o) == get_history(commits, branches, HEAD, tags, o)

RECURSIVE Without(_, _)
Without(seq, S) ==
    IF seq = <<>> THEN <<>>
    ELSE IF Head(seq) \in S THEN Without(Tail(seq), S)
    ELSE <<Head(seq)>> \o Without(Tail(seq), S)

FullHistory(revs) == {revs[i].identifier : i \in 1..Len(revs)}

\* the targets that name no revision of the history delete_backups looked at
Unmatched == pre.targets \ FullHistory(PreHistory(FullHistoryOptions))

\* the first revision of the history delete_backups looked at
RootId ==
    LET all_revs == PreHistory(FullHistoryOptions)
    IN  all_revs[Len(all_revs)].identifier

\* every target names a revision, and none names the root
ValidTargets ==
    /\ Unmatched = {}
    /\ RootId \notin pre.targets

\* the commit the gsb branch is at when the rewrite starts: the snapshot of the
\* uncommitted changes when there were any
OldHead == IF pre.dirty THEN pre.ncommits + 1 ELSE pre.branches[GSB]

\* nothing in the repository differs from what delete_backups found
Untouched ==
    /\ Len(commits) = pre.ncommits
    /\ branches = pre.branches
    /\ HEAD = pre.HEAD
    /\ tags = pre.tags
    /\ index = pre.index
    /\ worktree = pre.worktree

Survivors(revs) == SelectSeq(revs, LAMBDA r : r.identifier \notin pre.targets)

\* C1: after a successful delete_backups(targets), get_history() returns the
\* identifiers it returned before the call, without the targets, in the same
\* newest-first order.
C1_HistoryIsPreMinusTargets ==
    Succeeded =>
        Identifiers(PostHistory(DefaultOptions))
            = Without(Identifiers(PreHistory(DefaultOptions)), pre.targets)

\* C1, amended: after a successful delete_backups(targets), the tagged history
\* with unmanaged revisions included is the one before the call without the
\* targets, in the same order; the default (managed only) history is too when
\* every tag was a managed one before the call.
C1_TaggedHistoryIsPreMinusTargets ==
    Succeeded =>
        /\ Identifiers(PostHistory(Options(TRUE, TRUE, -1, 0, FALSE)))
            = Without(Identifiers(PreHistory(Options(TRUE, TRUE, -1, 0, FALSE))),
                      pre.targets)
        /\ (\A t \in pre.tags : t.gsb = "T") =>
              Identifiers(PostHistory(DefaultOptions))
                  = Without(Identifiers(PreHistory(DefaultOptions)), pre.targets)

\* a tagged revision between two tagged survivors was deleted, and the newer
\* survivor was replayed and tagged again
C1_Witness ==
    /\ Succeeded
    /\ \E t \in pre.targets : t[1] = "tag"
    /\ Len(PostHistory(DefaultOptions)) >= 2
    /\ tags_to_update # <<>>

\* C2: after a successful delete_backups, every surviving revision has the
\* tree it had before, keeps its tag, and the survivors are in the order they
\* were in (under the snapshot of the uncommitted changes, when one was made).
C2_SurvivorsKeepTreeAndOrder ==
    Succeeded =>
        LET keep == Survivors(PreHistory(FullHistoryOptions))
            post == PostHistory(FullHistoryOptions)
            off == IF pre.dirty THEN 1 ELSE 0
        IN  /\ Len(post) = Len(keep) + off
            /\ \A i \in 1..Len(keep) :
                  /\ TreeOf(commits, post[i + off].commit_hash)
                        = TreeOf(commits, keep[i].commit_hash)
                  /\ post[i + off].tagged = keep[i].tagged
                  /\ keep[i].tagged => post[i + off].identifier = keep[i].identifier

\* two survivors newer than a deleted revision were replayed as new commits
C2_Witness ==
    /\ Succeeded
    /\ Len(new_history) >= 2
    /\ \E i \in 1..Len(new_history) : new_history[i].kind = "Tag"

\* C3: when the rewrite fails after the temporary branch was made, what
\* delete_backups leaves is the timeline it started from: the gsb branch at
\* the old head, every tag with its name, target and annotation, and the
\* same history.
C3_FailureRestoresTimeline ==
    (Returned /\ result.error # ""
        /\ raised.phase \in {"Replaying", "Retagging", "Finalizing"}) =>
        /\ GSB \in DOMAIN branches
        /\ branches[GSB] = OldHead
        /\ DOMAIN branches = DOMAIN pre.branches
        /\ tags = pre.tags
        /\ PostHistory(FullHistoryOptions)
              = get_history(commits, [b \in {GSB} |-> OldHead], GSB, pre.tags,
                            FullHistoryOptions)

\* C4: a successful delete_backups shortens the full history (untagged and
\* unmanaged revisions included) by the number of targets, the snapshot of
\* the uncommitted changes not counted.
C4_FullHistoryShrinksByTargets ==
    Succeeded =>
        Len(PostHistory(FullHistoryOptions)) - (IF pre.dirty THEN 1 ELSE 0)
            = Len(PreHistory(FullHistoryOptions)) - Cardinality(pre.targets)

\* two revisions were deleted in one call
C4_Witness ==
    /\ Succeeded
    /\ Cardinality(pre.targets) = 2
    /\ Len(PostHistory(FullHistoryOptions)) >= 2

\* C5: when a target names no revision, delete_backups changes nothing: no
\* commit is made of the uncommitted changes, no branch, tag or file moves,
\* and the rewrite never starts.
C5_UnmatchedTargetMutatesNothing ==
    (pre.set /\ Unmatched # {}) =>
        /\ pc = "idle"
        /\ result.op = "delete"
        /\ result.error # ""
        /\ Untouched

\* a call with one target that names a revision and one that names nothing,
\* made with uncommitted changes
C5_Witness ==
    /\ Returned
    /\ Unmatched # {}
    /\ pre.targets \ Unmatched # {}
    /\ RootId \notin pre.targets
    /\ pre.dirty

\* C6: when a target names no revision, delete_backups fails with the
\* not-found error that lists every such target, and with no other error.
C6_UnmatchedTargetRaisesNotFound ==
    (Returned /\ Unmatched # {}) =>
        /\ result.error = "ValueError.NotFound"
        /\ result.not_found = Unmatched

\* C6, amended: when a target names no revision and no target names the root
\* revision, delete_backups fails with the not-found error that lists every
\* unmatched target.
C6_UnmatchedTargetRaisesNotFoundUnlessRoot ==
    (Returned /\ Unmatched # {} /\ RootId \notin pre.targets) =>
        /\ result.error = "ValueError.NotFound"
        /\ result.not_found = Unmatched

\* a call of which two targets name nothing
C6_Witness ==
    /\ Returned
    /\ Cardinality(Unmatched) = 2
    /\ result.error = "ValueError.NotFound"

\* C7: when the root revision is among the targets, delete_backups fails with
\* the initial-revision restriction and has changed nothing.
C7_RootTargetIsRefused ==
    (pre.set /\ RootId \in pre.targets) =>
        /\ pc = "idle"
        /\ result.op = "delete"
        /\ result.error = "NotImplementedError"
        /\ Untouched

\* the root and a newer revision were the targets, with uncommitted changes
C7_Witness ==
    /\ Returned
    /\ RootId \in pre.targets
    /\ Cardinality(pre.targets \ Unmatched) = 2
    /\ pre.dirty

\* C8: with uncommitted changes and valid targets, an untagged backup of the
\* changes is made on top of the old head before the rewrite, is the last of
\* the revisions to replay, and is the newest revision of the rewritten
\* timeline with the content of the files as they were.
C8_UncommittedChangesSurvive ==
    (pre.set /\ pre.dirty /\ ValidTargets /\ pc # "snapshot") =>
        LET c == pre.ncommits + 1
        IN  /\ Len(commits) >= c
            /\ commits[c].tree = pre.worktree
            /\ commits[c].parent = pre.branches[GSB]
            /\ \A t \in tags : t.target # c
            /\ new_history # <<>>
            /\ new_history[Len(new_history)].kind = "Commit"
            /\ new_history[Len(new_history)].hash = c
            /\ Succeeded =>
                  LET newest == PostHistory(FullHistoryOptions)[1]
                  IN  /\ ~newest.tagged
                      /\ TreeOf(commits, newest.commit_hash) = pre.worktree
                      /\ worktree = pre.worktree

\* a delete made with uncommitted changes went through, and left more than
\* the snapshot of them
C8_Witness ==
    /\ Succeeded
    /\ pre.dirty
    /\ Len(PostHistory(FullHistoryOptions)) >= 3

\* C9: after a successful delete_backups the files are what they were when it
\* was called, and there is nothing to commit.
C9_WorktreeIsKept ==
    Succeeded =>
        /\ worktree = pre.worktree
        /\ NothingToCommit(commits, branches, HEAD, worktree)

\* C10: from Branching until Finalizing the gsb branch stays at the old head,
\* and from Finalizing on it is at the old head or at the new one: it is
\* never missing and never anywhere else.
C10_PrimaryBranchMovesAtomically ==
    (pre.set /\ pc \notin {"idle", "snapshot"}) =>
        /\ GSB \in DOMAIN branches
        /\ pc \in {"branch", "replay", "retag", "finalize"} =>
              branches[GSB] = OldHead
        /\ pc \in {"checkout", "except", "finally"} =>
              branches[GSB] \in {OldHead, Resolve(commits, tags, head)}

\* where the revisions named by S stand in a newest-first history
Positions(revs, S) == {i \in 1..Len(revs) : revs[i].identifier \in S}

\* the position, in the history delete_backups looked at, of the oldest
\* revision to go
EarliestTarget ==
    LET at == Positions(PreHistory(FullHistoryOptions), pre.targets)
    IN  CHOOSE i \in at : \A j \in at : j <= i

\* C11: the rewrite starts from the revision just older than the oldest
\* target, whatever the number of targets and whether or not they are
\* adjacent; the temporary branch starts there, and after a successful delete
\* that revision and every older one is the same commit at the same distance
\* from the root.
C11_BranchPointAndBaseUntouched ==
    (pre.set /\ ValidTargets) =>
        LET all_revs == PreHistory(FullHistoryOptions)
            n == Len(all_revs)
            k == EarliestTarget
        IN  /\ starting_point = all_revs[k + 1].identifier
            /\ (pc = "replay" /\ cursor = 0) =>
                  branches[branch_name] = all_revs[k + 1].commit_hash
            /\ Succeeded =>
                  LET post == PostHistory(FullHistoryOptions)
                  IN  \A j \in 0..(n - k - 1) :
                         /\ Len(post) - j >= 1
                         /\ post[Len(post) - j].commit_hash = all_revs[n - j].commit_hash
                         /\ post[Len(post) - j].identifier = all_revs[n - j].identifier

\* two targets with a survivor between them were deleted in one call
C11_Witness ==
    /\ Succeeded
    /\ LET at == Positions(PreHistory(FullHistoryOptions), pre.targets)
       IN  \E i, j \in at : j > i + 1
\* C12: after a successful delete_backups, every tagged survivor that was
\* replayed has exactly one tag of its name, with the annotation it had, on
\* the new commit that replays it (the one with its tree, at its place in the
\* new timeline), and none on the original commit.
C12_ReplayedTagsFollowTheirCommits ==
    Succeeded =>
        LET keep == Survivors(PreHistory(FullHistoryOptions))
            post == PostHistory(FullHistoryOptions)
            off == IF pre.dirty THEN 1 ELSE 0
        IN  \A i \in 1..Len(keep) :
               (keep[i].tagged /\ keep[i].commit_hash > Resolve(commits, pre.tags, starting_point)) =>
                  LET was == CHOOSE t \in pre.tags : t.name = keep[i].identifier
                      named == {t \in tags : t.name = was.name}
                  IN  /\ Cardinality(named) = 1
                      /\ \A t \in named :
                            /\ t.annotation = was.annotation
                            /\ t.target # was.target
                            /\ t.target > pre.ncommits
                            /\ t.target = post[i + off].commit_hash
                            /\ TreeOf(commits, t.target) = TreeOf(commits, was.target)

\* two tagged survivors were replayed and tagged again
C12_Witness ==
    /\ Succeeded
    /\ Len(tags_to_update) = 2
\* the ways of passing the set S of identifiers: in any order, one of them
\* possibly twice
ArgumentLists(S) ==
    {s \in UNION {[1..n -> S] : n \in 1..(Cardinality(S) + 1)} :
        {s[i] : i \in 1..Len(s)} = S}

Left == Returned /\ branch_name # NoId

C15_OriginalErrorReachesCaller ==
    (Left /\ raised.phase # "") => result.error = raised.first
\* C16: when the checked-out branch is not gsb and there is no gsb branch to
\* delete, that is no failure of Finalizing: gsb is made and checked out; and
\* after a successful delete the original branch still exists at its old
\* head, and gsb is checked out at the new head.
C16_OriginalBranchIsKept ==
    (pre.set /\ pre.HEAD # GSB /\ GSB \notin DOMAIN pre.branches) =>
        /\ pc = "checkout" =>
              /\ raised = NoError
              /\ HEAD = GSB
              /\ GSB \in DOMAIN branches
        /\ pc \notin {"idle", "snapshot"} =>
              /\ pre.HEAD \in DOMAIN branches
              /\ branches[pre.HEAD] =
                    IF pre.dirty THEN pre.ncommits + 1 ELSE pre.branches[pre.HEAD]
        /\ Succeeded =>
              /\ pre.HEAD \in DOMAIN branches
              /\ branches[pre.HEAD] =
                    IF pre.dirty THEN pre.ncommits + 1 ELSE pre.branches[pre.HEAD]
              /\ HEAD = GSB
              /\ branches[GSB] = Resolve(commits, tags, head)
              /\ branches[GSB] = PostHistory(FullHistoryOptions)[1].commit_hash

\* a delete on a repository without a gsb branch went through, with a
\* survivor replayed
C16_Witness ==
    /\ Succeeded
    /\ pre.HEAD = MAIN
    /\ GSB \notin DOMAIN pre.branches
    /\ new_history # <<>>
\* C17: after a successful delete_backups every surviving revision has the
\* timestamp it had, so that get_history(since=t) lists the surviving
\* identifiers it listed before, for every t.
C17_TimestampsArePreserved ==
    Succeeded =>
        LET keep == Survivors(PreHistory(FullHistoryOptions))
            post == PostHistory(FullHistoryOptions)
            off == IF pre.dirty THEN 1 ELSE 0
        IN  /\ \A i \in 1..Len(keep) :
                  i + off <= Len(post) => post[i + off].timestamp = keep[i].timestamp
            /\ \A t \in 0..now :
                  Identifiers(PostHistory(Options(TRUE, TRUE, -1, t, FALSE)))
                      = Without(Identifiers(PreHistory(Options(TRUE, TRUE, -1, t, FALSE))),
                                pre.targets)
\* C18: a successful delete_backups returns a name of the newest revision of
\* the rewritten history, the one the full history lists first: its
\* identifier there (tag name or short hash), or the full hash of its commit.
C18_ReturnsTheNewHead ==
    Succeeded =>
        LET newest == PostHistory(FullHistoryOptions)[1]
        IN  /\ result.value \in {newest.identifier, <<"full", newest.commit_hash>>}
            /\ Resolve(commits, tags, result.value) = branches[GSB]

\* the newest revision was replayed and is tagged: its full hash is returned
C18_Witness ==
    /\ Succeeded
    /\ result.value[1] = "full"
    /\ PostHistory(FullHistoryOptions)[1].tagged
    /\ Len(new_history) >= 2
\* the revisions of a history that a target names: by its tag name, by its
\* short hash or, when it is untagged, by its full hash
Named(revs, target) ==
    {i \in 1..Len(revs) :
        \/ revs[i].identifier = target
        \/ ~revs[i].tagged /\ target = <<"full", revs[i].commit_hash>>}

\* C19: a target given as a tag name, a short hash or the full hash of an
\* untagged revision names that revision: when every target names a revision
\* in one of these ways, none is reported as not found, and a successful
\* delete removes exactly the revisions named.
C19_TargetsMatchByNameOrHash ==
    (Returned /\ \A t \in pre.targets : Named(PreHistory(FullHistoryOptions), t) # {}) =>
        /\ result.error # "ValueError.NotFound"
        /\ result.error = "" =>
              LET all_revs == PreHistory(FullHistoryOptions)
                  gone == UNION {Named(all_revs, t) : t \in pre.targets}
              IN  Len(PostHistory(FullHistoryOptions)) - (IF pre.dirty THEN 1 ELSE 0)
                     = Len(all_revs) - Cardinality(gone)
Queried == result.op = "history"

Asked == result.value[1]

Answer == result.value[2]

Chain == Log(commits, branches, HEAD)

Hashes(revs) == [i \in 1..Len(revs) |-> revs[i].commit_hash]

Pos(log, h) == CHOOSE i \in 1..Len(log) : log[i] = h

\* the annotated tags that point at commit c
Annotations(c) == {t \in tags : t.target = c /\ t.annotation # 0}

\* neither limit, since nor since_last_tagged_backup cuts the walk short
Uncut(o) == o.limit = -1 /\ o.since = 0 /\ ~o.since_last_tagged_backup

\* C21: a revision is returned as tagged, under a tag's name, exactly when an
\* annotated tag points at its commit (a lightweight tag does not count);
\* with tagged_only only such revisions are returned, without it the untagged
\* commits are returned too, under the short form of their hash, and every
\* revision stands at its place in the chain, newest first
C21_TaggedOnlySelectsAnnotatedTags ==
    Queried =>
        LET revs == Answer
            Wanted(c) == ~Asked.tagged_only \/ Annotations(c) # {}
        IN  /\ \A i \in 1..Len(revs) :
                  LET h == revs[i].commit_hash
                  IN  /\ \E k \in 1..Len(Chain) : Chain[k] = h
                      /\ IF Annotations(h) # {}
                         THEN /\ revs[i].tagged
                              /\ \E t \in Annotations(h) : t.name = revs[i].identifier
                         ELSE /\ ~revs[i].tagged
                              /\ ~Asked.tagged_only
                              /\ revs[i].identifier = <<"short", h>>
            /\ \A i, j \in 1..Len(revs) :
                  i < j => Pos(Chain, revs[i].commit_hash) < Pos(Chain, revs[j].commit_hash)
            /\ (Uncut(Asked) /\ Asked.include_non_gsb) =>
                  Hashes(revs) = SelectSeq(Chain, Wanted)

\* a query without tagged_only returned a tagged revision and, after it, a
\* commit that carries only a lightweight tag
C21_Witness ==
    /\ Queried
    /\ ~Asked.tagged_only
    /\ \E i, j \in 1..Len(Answer) :
          /\ i < j
          /\ Answer[i].tagged
          /\ ~Answer[j].tagged
          /\ \E t \in tags : t.target = Answer[j].commit_hash /\ t.annotation = 0


\* whether a returned revision was made by gsb: the provenance of the tag
\* that names it when that is known, otherwise that of its commit
Managed(rev) ==
    IF rev.tagged
    THEN LET t == CHOOSE u \in tags : u.name = rev.identifier
         IN  IF t.gsb # "N" THEN t.gsb = "T" ELSE commits[rev.commit_hash].gsb
    ELSE commits[rev.commit_hash].gsb

IsManaged(rev) == rev.gsb

\* C22: the gsb flag of every returned revision is the provenance of its tag,
\* or of its commit when it has no tag; without include_non_gsb only managed
\* revisions are returned, namely the managed ones of the same query with
\* include_non_gsb, in the same order; with include_non_gsb and neither
\* tagged_only nor a cut, every commit of the chain is returned in chain order
C22_UnmanagedRevisionsAreFilteredByProvenance ==
    Queried =>
        /\ \A i \in 1..Len(Answer) : Answer[i].gsb = Managed(Answer[i])
        /\ ~Asked.include_non_gsb => \A i \in 1..Len(Answer) : Answer[i].gsb
        /\ (~Asked.include_non_gsb /\ Asked.limit = -1) =>
              Answer = SelectSeq(get_history(commits, branches, HEAD, tags,
                                             [Asked EXCEPT !.include_non_gsb = TRUE]),
                                 IsManaged)
        /\ (Asked.include_non_gsb /\ ~Asked.tagged_only /\ Uncut(Asked)) =>
              Hashes(Answer) = Chain

\* a default query returned a gsb tag that sits on a commit made with git,
\* and left out a gsb commit that carries the user's own tag
C22_Witness ==
    /\ Queried
    /\ ~Asked.include_non_gsb
    /\ Uncut(Asked)
    /\ \E i \in 1..Len(Answer) :
          Answer[i].tagged /\ ~commits[Answer[i].commit_hash].gsb
    /\ \E k \in 1..Len(Chain) :
          /\ commits[Chain[k]].gsb
          /\ Annotations(Chain[k]) # {}
          /\ \A i \in 1..Len(Answer) : Answer[i].commit_hash # Chain[k]


\* the first n entries of a list, all of them if there are fewer
Prefix(seq, n) == SubSeq(seq, 1, IF n < Len(seq) THEN n ELSE Len(seq))

\* the same query without a limit
Unlimited == get_history(commits, branches, HEAD, tags, [Asked EXCEPT !.limit = -1])

\* C23: a query with limit n >= 1 returns the first n revisions of the same
\* query without a limit (all of them if there are fewer than n)
C23_LimitTakesThePrefix ==
    (Queried /\ Asked.limit >= 1) => Answer = Prefix(Unlimited, Asked.limit)

\* a query with limit 2 returned two revisions out of more, the newest of
\* them older than a commit its filters skipped
C23_Witness ==
    /\ Queried
    /\ Asked.limit = 2
    /\ Len(Answer) = 2
    /\ Len(Unlimited) > 2
    /\ Answer[1].commit_hash # Chain[1]


\* the same query without since (the default is the epoch)
Undated == get_history(commits, branches, HEAD, tags, [Asked EXCEPT !.since = 0])

NotOlder(rev) == rev.timestamp >= Asked.since

\* C24: a query with since = s returns the revisions of the same query
\* without since that were made at s or later, all of them and in their order
C24_SinceKeepsTheRevisionsNotOlder ==
    (Queried /\ Asked.since > 0) => Answer = SelectSeq(Undated, NotOlder)

\* a query with since returned a revision made exactly then and left out
\* an older one
C24_Witness ==
    /\ Queried
    /\ Asked.since > 0
    /\ Len(Answer) < Len(Undated)
    /\ \E i \in 1..Len(Answer) : Answer[i].timestamp = Asked.since


\* the history [tag:v1, c1, c2]: the two newest commits are managed and
\* untagged, the third newest carries an annotated tag
OpenTailOfTwo ==
    /\ Len(Chain) >= 3
    /\ \A k \in 1..2 : Annotations(Chain[k]) = {} /\ commits[Chain[k]].gsb
    /\ Annotations(Chain[3]) # {}

ShortIds(hashes) == [k \in 1..Len(hashes) |-> <<"short", hashes[k]>>]

\* C25 as stated: with since_last_tagged_backup and every other argument at
\* its default, the query on [tag:v1, c1, c2] returns [c2, c1]
C25_DefaultsReturnTheOpenTail ==
    (Queried /\ Asked = Options(TRUE, FALSE, -1, 0, TRUE) /\ OpenTailOfTwo) =>
        Identifiers(Answer) = ShortIds(SubSeq(Chain, 1, 2))

\* C25: on [tag:v1, c1, c2] the query with since_last_tagged_backup returns
\* [c2, c1], without v1, when tagged_only is false; with tagged_only left at
\* its default it returns nothing
C25_OpenTailNeedsUntaggedRevisions ==
    (Queried /\ OpenTailOfTwo) =>
        /\ Asked = Options(FALSE, FALSE, -1, 0, TRUE) =>
              Identifiers(Answer) = ShortIds(SubSeq(Chain, 1, 2))
        /\ Asked = Options(TRUE, FALSE, -1, 0, TRUE) => Answer = <<>>

\* the query with tagged_only=false and since_last_tagged_backup returned on
\* a history of that shape
C25_Witness ==
    /\ Queried
    /\ OpenTailOfTwo
    /\ Asked = Options(FALSE, FALSE, -1, 0, TRUE)
    /\ Len(Answer) = 2


\* the commits of the chain newer than the newest one that carries an
\* annotated tag
OpenTail ==
    LET tagged == {k \in 1..Len(Chain) : Annotations(Chain[k]) # {}}
        first == IF tagged = {} THEN Len(Chain) + 1
                 ELSE CHOOSE k \in tagged : \A m \in tagged : k <= m
    IN  SubSeq(Chain, 1, first - 1)

Listed(c) == Asked.include_non_gsb \/ commits[c].gsb

\* C26: a query with since_last_tagged_backup never returns a tagged
\* revision; with tagged_only=false and no limit or since it returns exactly
\* the commits newer than the newest annotated-tagged commit (the managed
\* ones, unless include_non_gsb), newest first
C26_SinceLastTaggedReturnsTheOpenTail ==
    (Queried /\ Asked.since_last_tagged_backup) =>
        /\ \A i \in 1..Len(Answer) :
              ~Answer[i].tagged /\ Annotations(Answer[i].commit_hash) = {}
        /\ (~Asked.tagged_only /\ Asked.limit = -1 /\ Asked.since = 0) =>
              /\ Hashes(Answer) = SelectSeq(OpenTail, Listed)
              /\ Identifiers(Answer) = ShortIds(Hashes(Answer))

\* such a query returned a managed revision and left out an unmanaged commit
\* of the open tail, on a chain that has older commits behind the tag
C26_Witness ==
    /\ Queried
    /\ Asked = Options(FALSE, FALSE, -1, 0, TRUE)
    /\ Len(Answer) >= 1
    /\ Len(Answer) < Len(OpenTail)
    /\ Len(OpenTail) + 1 < Len(Chain)


BackupOfNothing(tagged) ==
    /\ result'.op = "backup"
    /\ (result'.value[1] # 0) = tagged
    /\ NothingToCommit(commits, branches, HEAD, worktree)

\* the step added one annotated tag on the commit that was the head, with the
\* tag message as annotation, and returned its name
TaggedTheHead ==
    /\ result'.error = ""
    /\ \E t \in tags' \ tags :
          /\ tags' = tags \cup {t}
          /\ t.target = HeadCommit(branches, HEAD)
          /\ t.annotation = result'.value[1]
          /\ t.name = result'.value[2]

C29_ManifestIncludesRequiredFiles ==
    (result.op = "init" /\ result.error = "") =>
        /\ result.value # {}
        /\ REQUIRED_FILES \subseteq result.value


\* the manifest file is force-added to every backup, so a tree holds one
\* version of it: the trees in which the user has reconfigured the patterns
ReconfiguredTrees == {2}

\* the patterns of the manifest stored in a tree: 0 as written at onboarding,
\* 1 as reconfigured by the user
ManifestIn(tree) == IF tree \in ReconfiguredTrees THEN 1 ELSE 0

\* C30: when create_backup or get_history returns or raises, the manifest at
\* the root is the one that was there when it was called, and when
\* delete_backups returns or raises, after a rollback too, the manifest is
\* the one that was there when delete_backups was called
C30_ManifestIsNeverMutated ==
    [][/\ result'.op \in {"backup", "history"} =>
             ManifestIn(worktree') = ManifestIn(worktree)
       /\ (pc' = "idle" /\ result'.op = "delete" /\ pre'.set) =>
             ManifestIn(worktree') = ManifestIn(pre'.worktree)]_vars


\* ------------------------------------------------------------- the phases
\* the steps a rewrite can take from one phase to the next: Validating is
\* the call itself, "snapshot" Snapshotting-Uncommitted, "branch" Branching,
\* "replay" Replaying, "retag" Retagging, "finalize" and "checkout" Finalizing
PhaseOrder ==
    {<<"snapshot", "branch">>,
     <<"branch", "replay">>, <<"branch", "finalize">>, <<"branch", "except">>,
     <<"replay", "replay">>, <<"replay", "retag">>, <<"replay", "finalize">>,
     <<"replay", "except">>,
     <<"retag", "retag">>, <<"retag", "finalize">>, <<"retag", "except">>,
     <<"finalize", "checkout">>, <<"finalize", "except">>,
     <<"checkout", "finally">>, <<"checkout", "except">>,
     <<"except", "finally">>, <<"finally", "idle">>}

\* the survivors replayed so far: the commits made since the call, less the
\* backup of the uncommitted changes
Replayed == Len(commits) - pre.ncommits - (IF pre.dirty THEN 1 ELSE 0)

\* where the gsb branch is, 0 when there is none
PrimaryAt(br) == IF GSB \in DOMAIN br THEN br[GSB] ELSE 0

\* every tag of a replayed survivor is on the survivor's new commit
AllRetagged ==
    \A k \in 1..Len(tags_to_update) :
        \E t \in tags : /\ t.name = tags_to_update[k].tag.name
                        /\ t.target = tags_to_update[k].target

\* C31: a rewrite moves through its phases in their order; the survivors
\* are listed oldest first and each replay commit is made of the next one
\* of them; tags change only in Retagging, after all survivors have been
\* replayed; the gsb branch moves only in Snapshotting-Uncommitted (the
\* backup of uncommitted changes), in Finalizing after all tags have been
\* recreated, or in the handlers that end a failed run
C31_PhasesRunInOrder ==
    [][(pre.set /\ pc # "idle") =>
          /\ <<pc, pc'>> \in PhaseOrder
          /\ \A i, k \in 1..Len(new_history) :
                i < k => new_history[i].hash < new_history[k].hash
          /\ (pc = "replay" /\ commits' # commits) =>
                /\ Len(commits') = Len(commits) + 1
                /\ commits'[Len(commits')].tree =
                      TreeOf(commits, new_history[Replayed + 1].hash)
                /\ commits'[Len(commits')].parent = Resolve(commits, tags, head)
          /\ tags' # tags => pc = "retag" /\ Replayed = Len(new_history)
          /\ PrimaryAt(branches') # PrimaryAt(branches) =>
                \/ pc \in {"snapshot", "except", "finally"}
                \/ /\ pc \in {"finalize", "checkout"}
                   /\ Replayed = Len(new_history)
                   /\ AllRetagged]_vars

\* a rewrite that replayed two survivors and recreated a tag has reached
\* the end of Finalizing
C31_Witness ==
    /\ pre.set
    /\ pc = "finally"
    /\ raised = NoError
    /\ Len(new_history) >= 2
    /\ tags_to_update # <<>>
    /\ TreeOf(commits, new_history[1].hash) # TreeOf(commits, new_history[2].hash)


\* the steps of rewrite_history, which runs them one after the other
\* without waiting for anything
RewriteStep ==
    \/ SnapshotUncommitted
    \/ \E ok \in BOOLEAN : Branching(ok)
    \/ \E ok \in BOOLEAN : Replaying(ok)
    \/ \E fail \in {"none", "delete_tag", "tag"} : Retagging(fail)
    \/ \E ok \in BOOLEAN : FinalizingDelete(ok)
    \/ \E ok \in BOOLEAN : FinalizingCheckout(ok)
    \/ Except
    \/ Finally

SpecLive == Spec /\ WF_vars(RewriteStep)

\* a rewrite that has come to Branching returns to its caller
RewriteTerminates == (pc = "branch") ~> (pc = "idle")

\* the rewrite returned the new head, gsb is checked out at it and the
\* temporary branch is gone
Committed ==
    /\ result.error = ""
    /\ HEAD = GSB
    /\ DOMAIN branches = DOMAIN pre.branches
    /\ branches[GSB] = Resolve(commits, tags, result.value)

\* the rewrite raised, and branches, tags and checked-out branch are those
\* of the call, the backup of uncommitted changes included
RolledBack ==
    /\ result.error # ""
    /\ HEAD = pre.HEAD
    /\ branches = [pre.branches EXCEPT ![GSB] = OldHead]
    /\ tags = pre.tags

\* C32: a rewrite that got as far as Branching has, when it returns to its
\* caller, either committed (no error, gsb at the new head) or rolled back
\* completely (an error, branches and tags as they were)
C32_EndsCommittedOrRolledBack ==
    Left => (Committed \/ RolledBack)


\* C33: the name Branching gives the temporary branch is not the name of a
\* branch that exists when Branching runs
C33_TemporaryBranchNameIsFresh ==
    [][(pc = "branch" /\ pc' # "branch") => branch_name' \notin DOMAIN branches]_vars


\* C34: a call whose targets all exist and do not include the root, and in
\* which no adapter call fails for reasons of its own, succeeds
C34_ValidDeleteSucceeds ==
    (Returned /\ pre.set /\ ValidTargets /\ raised.first # "OSError") =>
        result.error = ""


\* C35: after a successful call the tag of every deleted tagged backup is
\* gone, so that no tag refers to a deleted revision
C35_TagsOfDeletedBackupsAreRemoved ==
    Succeeded => \A id \in pre.targets : ~TagExists(tags, id)


\* the identifiers get_history lists under the given options, as a set
ListedNow(o) ==
    LET revs == get_history(commits, branches, HEAD, tags, o)
    IN  {revs[i].identifier : i \in 1..Len(revs)}

\* C36: while nothing is deleted, every tag that create_backup made is listed
\* by get_history(tagged_only=true), a second tagged backup of unchanged files
\* included, and the identifier the last create_backup returned is one that
\* get_history lists
C36_BackupsStayListed ==
    /\ \A t \in tags : t.gsb = "T" => t.name \in ListedNow(DefaultOptions)
    /\ (result.op = "backup" /\ result.error = "") =>
          result.value[2] \in ListedNow(FullHistoryOptions)


\* C37: a create_backup that raises has added no commit and no tag
C37_FailedBackupAddsNothing ==
    [][(result'.op = "backup" /\ result'.error # "") =>
          /\ commits' = commits
          /\ branches' = branches
          /\ tags' = tags]_vars


\* the history as it was when the first of two calls following each other
\* was made
FirstHistory ==
    get_history(commits, pre.before.branches, pre.before.HEAD, pre.before.tags,
                FullHistoryOptions)

\* what a history says of each backup: the tag name of a tagged one (the
\* hash of an untagged one changes when it is replayed) and the tree
Shape(revs) ==
    [i \in 1..Len(revs) |->
        <<IF revs[i].tagged THEN revs[i].identifier ELSE NoId,
          TreeOf(commits, revs[i].commit_hash)>>]

\* delete_backups(a) has returned and delete_backups(b) after it, a and b
\* being two tagged backups of the history other than its root
OneByOne ==
    /\ Returned
    /\ pre.set
    /\ pre.before.set
    /\ pre.before.error # "Killed"
    /\ result.error # "Killed"
    /\ LET both == pre.before.targets \cup pre.targets
           revs == FirstHistory
       IN  /\ Cardinality(both) = 2
           /\ \A id \in both :
                 /\ id[1] = "tag"
                 /\ \E i \in 1..(Len(revs) - 1) : revs[i].identifier = id

\* the history that delete_backups(a, b) leaves: the backups other than a
\* and b in their order, after the snapshot of uncommitted changes if any
BothAtOnce ==
    LET both == pre.before.targets \cup pre.targets
        kept == SelectSeq(FirstHistory, LAMBDA r : r.identifier \notin both)
    IN  (IF pre.before.dirty THEN <<<<NoId, pre.before.worktree>>>> ELSE <<>>)
            \o Shape(kept)

\* C38: for two distinct tagged backups a and b other than the root,
\* delete_backups(a) followed by delete_backups(b) succeeds and leaves the
\* history that delete_backups(a, b) leaves
C38_OneByOneEqualsBothAtOnce ==
    OneByOne =>
        /\ pre.before.error = ""
        /\ result.error = ""
        /\ Shape(PostHistory(FullHistoryOptions)) = BothAtOnce


\* delete_backups found uncommitted changes, backed them up and then failed
FailedAfterSnapshot ==
    /\ Returned
    /\ result.error # ""
    /\ pre.set
    /\ pre.dirty
    /\ Len(commits) > pre.ncommits

\* C39: when the rewrite fails after it backed up uncommitted changes, the
\* backup of those changes is the head of branch gsb after the rollback, gsb
\* is checked out and the files are as they were edited
C39_RollbackKeepsUncommittedWork ==
    FailedAfterSnapshot =>
        /\ HEAD = GSB
        /\ GSB \in DOMAIN branches
        /\ branches[GSB] = pre.ncommits + 1
        /\ worktree = pre.worktree

====
